---- MODULE Spec2Model ----
(***************************************************************************)
(* Model of server.js: the in-memory room registry, the WebSocket          *)
(* connection / message / close handlers, the keep-alive timer and the     *)
(* room GC timer.  Node runs every handler to completion, so each handler  *)
(* is one atomic action.                                                   *)
(*                                                                         *)
(* conns holds the admitted connections (those whose handlers were         *)
(* registered); a rejected socket has no handler and is described only by  *)
(* last and by one extra slot of out in the state right after its          *)
(* rejection.  An admitted connection is identified by its index in conns; the  *)
(* memberId that nanoid(8) draws for it is modelled by that same index     *)
(* (fresh, never reused).  Once its close event has been handled nothing   *)
(* refers to a connection any more and its record is reset to Gone.        *)
(* room.roles is written at admission and never read: it is not modelled.  *)
(* A room object is identified by its index in objs, so that two *)
(* objects created under the same roomId stay distinguishable.             *)
(* out[c] is the sequence of frames the handler that ran last passed to    *)
(* ws.send on connection c, last names that handler and its input, and     *)
(* hist[c] keeps of the whole history of c only the type of the first      *)
(* frame ever sent to it and the number of hello frames sent to it.        *)
(***************************************************************************)
EXTENDS Integers, Sequences, FiniteSets, TLC

VARIABLES rooms, objs, conns, now, sweepDue, out, hist, last

vars == <<rooms, objs, conns, now, sweepDue, out, hist, last>>

(* ---- bounds ---- *)
MaxConns == 4
MaxRooms == 3
MaxClock == 2

(* ---- program constants ---- *)
ROOM_TTL_MS == 10 * 60 * 1000
OPEN == 1
CLOSING == 2
CLOSED == 3

ClockStepMs == ROOM_TTL_MS

(* ---- inputs ---- *)
RoomIdInputs == {"", "a", "A"}
CreateInputs == {"", "a", "A"}
RoleInputs == {"", "caller"}
NoFrame == [ok |-> TRUE, type |-> "", payload |-> ""]
(* inbound frames: ok is whether JSON.parse succeeds, type "" is an absent *)
(* (or empty) type                                                         *)
RawFrames == {[ok |-> FALSE, type |-> "", payload |-> ""], NoFrame,
              [ok |-> TRUE, type |-> "ping", payload |-> ""],
              [ok |-> TRUE, type |-> "chat", payload |-> "sdp1"],
              [ok |-> TRUE, type |-> "offer", payload |-> "sdp1"],
              [ok |-> TRUE, type |-> "offer", payload |-> "sdp2"],
              [ok |-> TRUE, type |-> "answer", payload |-> "sdp2"],
              [ok |-> TRUE, type |-> "ice", payload |-> "sdp1"]}

RoomIds == {"A"}
NoRoom == 0

ToUpperCase(s) == CASE s = "a" -> "A"
                    [] OTHER -> s

(* nanoid(6) may draw any id, also one that names an existing room *)
Nanoid6 == {"a"}

RoleOf(r) == IF r = "" THEN "guest" ELSE r

(* ---- helpers on sequences ---- *)
Range(s) == {s[i] : i \in DOMAIN s}

RECURSIVE Without(_, _)
Without(s, x) == IF s = <<>> THEN <<>>
                 ELSE IF Head(s) = x THEN Without(Tail(s), x)
                 ELSE <<Head(s)>> \o Without(Tail(s), x)

Quiet(cs) == [c \in DOMAIN cs |-> <<>>]

Record(h, o) ==
    [c \in DOMAIN o |->
        [first |-> IF h[c].first = "" /\ o[c] # <<>> THEN o[c][1].type ELSE h[c].first,
         nHello |-> h[c].nHello + Cardinality({i \in DOMAIN o[c] : o[c][i].type = "hello"})]]

NoClose == [code |-> 0, reason |-> ""]

(* what the handler that ran last was, on which connection, with which     *)
(* input, and the ws.close(code, reason) it issued on a socket it rejected *)
Did(op, c, rid, role, buf, closed) ==
    [op |-> op, c |-> c, rid |-> rid, role |-> role, buf |-> buf, closed |-> closed]

Ran(op, c) == Did(op, c, "", "", NoFrame, NoClose)

(* mutant of NewRoom: createdAt is not taken from the clock *)
NewRoomEpoch(rid, t) == [roomId |-> rid, createdAt |-> 0, members |-> <<>>]

NewRoom(rid, t) == [roomId |-> rid, createdAt |-> t, members |-> <<>>]

(* rooms.get(roomId).members, or nothing when the id is not registered *)
MembersOf(rms, os, rid) == IF rms[rid] = NoRoom THEN <<>> ELSE os[rms[rid]].members

WsSend(o, c, msg) == [o EXCEPT ![c] = Append(@, msg)]

(* mutant of broadcast: the readyState of the recipient is not looked at *)
broadcastAnyState(rms, os, cs, o, rid, msg) ==
    [c \in DOMAIN o |->
        IF c \in Range(MembersOf(rms, os, rid))
        THEN Append(o[c], msg) ELSE o[c]]

(* broadcast(roomId, msg) *)
broadcast(rms, os, cs, o, rid, msg) ==
    [c \in DOMAIN o |->
        IF c \in Range(MembersOf(rms, os, rid)) /\ cs[c].readyState = OPEN
        THEN Append(o[c], msg) ELSE o[c]]

(* relayToPeer(roomId, fromMemberId, msg) *)
relayToPeer(rms, os, cs, o, rid, fromMemberId, msg) ==
    [c \in DOMAIN o |->
        IF c \in Range(MembersOf(rms, os, rid)) /\ c # fromMemberId /\ cs[c].readyState = OPEN
        THEN Append(o[c], msg) ELSE o[c]]

(* mutants of IsFull: an off-by-one bound, and the check left out *)
IsFullOffByOne(room) == Len(room.members) > 2

IsFullNever(room) == Len(room.members) > MaxConns + 1

IsFull(room) == Len(room.members) >= 2

(* mutant of IsEmpty: the last departure does not remove the room *)
IsEmptyNever(room) == Len(room.members) < 0

IsEmpty(room) == Len(room.members) = 0

(* mutant of HelloMsg: the member list is taken before the insertion *)
HelloMsgBeforeInsert(roomId, memberId, role, room) ==
    [type |-> "hello", roomId |-> roomId, memberId |-> memberId, role |-> role,
     createdAt |-> room.createdAt, members |-> SelectSeq(room.members, LAMBDA m : m # memberId)]

HelloMsg(roomId, memberId, role, room) ==
    [type |-> "hello", roomId |-> roomId, memberId |-> memberId, role |-> role,
     createdAt |-> room.createdAt, members |-> room.members]

JoinedMsg(roomId, memberId, role) ==
    [type |-> "member.joined", roomId |-> roomId, memberId |-> memberId, role |-> role]

LeftMsg(roomId, memberId) ==
    [type |-> "member.left", roomId |-> roomId, memberId |-> memberId]

(* mutant of RelayTypes: ping is on the whitelist *)
RelayTypesWithPing == {"offer", "answer", "ice", "ping"}

RelayTypes == {"offer", "answer", "ice"}

Envelope(type, roomId, memberId, payload) ==
    [type |-> type, roomId |-> roomId, from |-> memberId, payload |-> payload]

PongMsg(t) == [type |-> "pong", t |-> t]

(* mutant of ErrorMsg: every error reply carries the same code *)
ErrorMsgOneCode(code) == [type |-> "error", code |-> "unsupported_type"]

ErrorMsg(code) == [type |-> "error", code |-> code]

(* mutant of Expired: the time-to-live is taken twice as long *)
ExpiredLate(room, t) == t - room.createdAt > 2 * ROOM_TTL_MS

Expired(room, t) == t - room.createdAt > ROOM_TTL_MS

Init ==
    /\ rooms = [r \in RoomIds |-> NoRoom]
    /\ objs = <<>>
    /\ conns = <<>>
    /\ now = 0
    /\ sweepDue = FALSE
    /\ out = <<>>
    /\ hist = <<>>
    /\ last = Ran("init", 0)

(* mutant of CreateRoom: the rooms.has check is missing *)
CreateRoomAlways(input, gen) ==
    LET roomId == ToUpperCase(IF input # "" THEN input ELSE gen) IN
    /\ Len(objs) < MaxRooms
    /\ objs' = Append(objs, NewRoom(roomId, now))
    /\ rooms' = [rooms EXCEPT ![roomId] = Len(objs) + 1]
    /\ out' = Quiet(conns)
    /\ last' = Did("create", 0, roomId, "", NoFrame, NoClose)
    /\ UNCHANGED <<conns, now, sweepDue, hist>>

(* app.post("/rooms") *)
CreateRoom(input, gen) ==
    LET roomId == ToUpperCase(IF input # "" THEN input ELSE gen) IN
    /\ IF rooms[roomId] = NoRoom
       THEN /\ Len(objs) < MaxRooms
            /\ objs' = Append(objs, NewRoom(roomId, now))
            /\ rooms' = [rooms EXCEPT ![roomId] = Len(objs) + 1]
       ELSE UNCHANGED <<rooms, objs>>
    /\ out' = Quiet(conns)
    /\ last' = Did("create", 0, roomId, "", NoFrame, NoClose)
    /\ UNCHANGED <<conns, now, sweepDue, hist>>

(* an admitted socket with the closure variables of its handlers; closeCode *)
(* and closeReason are the arguments of the server's ws.close call on it,  *)
(* peerGone is whether the client closed it first                          *)
NewConn(rid, room) ==
    [roomId |-> rid, room |-> room, readyState |-> OPEN, closeCode |-> 0,
     closeReason |-> "", peerGone |-> FALSE]

Gone == [roomId |-> "", room |-> NoRoom, readyState |-> CLOSED, closeCode |-> 0,
         closeReason |-> "", peerGone |-> FALSE]

NoHist == [first |-> "", nHello |-> 0]

(* wss.on("connection") *)
Connect(ridInput, roleInput) ==
    LET ws == Len(conns) + 1
        roomId == ToUpperCase(ridInput)
        role == RoleOf(roleInput)
    IN
    IF roomId = ""
    THEN /\ last' = Did("connect", ws, roomId, role, NoFrame, [code |-> 1008, reason |-> "roomId required"])
         /\ out' = Append(Quiet(conns), <<>>)
         /\ UNCHANGED <<rooms, objs, conns, now, sweepDue, hist>>
    ELSE LET fresh == rooms[roomId] = NoRoom
             room == IF fresh THEN Len(objs) + 1 ELSE rooms[roomId]
             objs1 == IF fresh THEN Append(objs, NewRoom(roomId, now)) ELSE objs
             rooms1 == IF fresh THEN [rooms EXCEPT ![roomId] = room] ELSE rooms
         IN
         /\ fresh => Len(objs) < MaxRooms
         /\ IF IsFull(objs1[room])
            THEN /\ last' = Did("connect", ws, roomId, role, NoFrame, [code |-> 1008, reason |-> "room full"])
                 /\ out' = Append(Quiet(conns), <<>>)
                 /\ objs' = objs1
                 /\ rooms' = rooms1
                 /\ UNCHANGED <<conns, hist>>
            ELSE LET memberId == ws
                     objs2 == [objs1 EXCEPT ![room].members = Append(@, memberId)]
                     conns2 == Append(conns, NewConn(roomId, room))
                     out2 == Append(Quiet(conns), <<HelloMsg(roomId, memberId, role, objs2[room])>>)
                     out3 == broadcast(rooms1, objs2, conns2, out2, roomId,
                                       JoinedMsg(roomId, memberId, role))
                 IN
                 /\ Len(conns) < MaxConns
                 /\ last' = Did("connect", ws, roomId, role, NoFrame, NoClose)
                 /\ objs' = objs2
                 /\ rooms' = rooms1
                 /\ conns' = conns2
                 /\ out' = out3
                 /\ hist' = Record(Append(hist, NoHist), out3)
         /\ UNCHANGED <<now, sweepDue>>

(* the client closes or drops its side: the socket leaves OPEN *)
ClientClose(c) ==
    /\ conns[c].readyState = OPEN
    /\ conns' = [conns EXCEPT ![c].readyState = CLOSING, ![c].peerGone = TRUE]
    /\ out' = Quiet(conns)
    /\ last' = Ran("clientclose", c)
    /\ UNCHANGED <<rooms, objs, now, sweepDue, hist>>

(* ws.on("close"): the socket is CLOSED when the event is emitted *)
CloseEvent(c) ==
    /\ conns[c].readyState = CLOSING
    /\ last' = Ran("close", c)
    /\ LET conns1 == [conns EXCEPT ![c].readyState = CLOSED]
           room == conns[c].room
           roomId == conns[c].roomId
           memberId == c
           objs1 == [objs EXCEPT ![room].members = Without(@, memberId)]
           out1 == broadcast(rooms, objs1, conns1, Quiet(conns), roomId,
                             LeftMsg(roomId, memberId))
       IN
       /\ objs' = objs1
       /\ out' = out1
       /\ rooms' = IF IsEmpty(objs1[room])
                   THEN [rooms EXCEPT ![roomId] = NoRoom] ELSE rooms
       /\ conns' = [conns1 EXCEPT ![c] = Gone]
       /\ hist' = [Record(hist, out1) EXCEPT ![c] = NoHist]
    /\ UNCHANGED <<now, sweepDue>>

(* the server closed the socket and the client has not answered yet *)
ServerClosed(c) == conns[c].readyState = CLOSING /\ ~conns[c].peerGone

(* mutant of Dispatch: the final else branch is missing *)
DispatchNoElse(c, buf) ==
    LET roomId == conns[c].roomId
        memberId == c
        quiet == Quiet(conns)
    IN
    IF ~buf.ok THEN WsSend(quiet, c, ErrorMsg("bad_json"))
    ELSE IF buf.type = "" THEN quiet
    ELSE IF buf.type \in RelayTypes
    THEN relayToPeer(rooms, objs, conns, quiet, roomId, memberId,
                     Envelope(buf.type, roomId, memberId, buf.payload))
    ELSE IF buf.type = "ping" THEN WsSend(quiet, c, PongMsg(now))
    ELSE quiet

(* the body of ws.on("message"): the frames it sends *)
Dispatch(c, buf) ==
    LET roomId == conns[c].roomId
        memberId == c
        quiet == Quiet(conns)
    IN
    IF ~buf.ok THEN WsSend(quiet, c, ErrorMsg("bad_json"))
    ELSE IF buf.type = "" THEN quiet
    ELSE IF buf.type \in RelayTypes
    THEN relayToPeer(rooms, objs, conns, quiet, roomId, memberId,
                     Envelope(buf.type, roomId, memberId, buf.payload))
    ELSE IF buf.type = "ping" THEN WsSend(quiet, c, PongMsg(now))
    ELSE WsSend(quiet, c, ErrorMsg("unsupported_type"))

(* ws.on("message"): frames still arrive on a socket the server has closed *)
(* until the client answers the close                                      *)
Message(c, buf) ==
    /\ conns[c].readyState = OPEN \/ ServerClosed(c)
    /\ out' = Dispatch(c, buf)
    /\ hist' = Record(hist, out')
    /\ last' = Did("message", c, "", "", buf, NoClose)
    /\ UNCHANGED <<rooms, objs, conns, now, sweepDue>>

(* room GC setInterval *)
Sweep ==
    LET dead == {r \in RoomIds : rooms[r] # NoRoom /\ Expired(objs[rooms[r]], now)}
        hit == UNION {Range(objs[rooms[r]].members) : r \in dead}
    IN
    /\ conns' = [c \in DOMAIN conns |->
                    IF c \in hit
                    THEN [conns[c] EXCEPT !.readyState = IF @ = OPEN THEN CLOSING ELSE @,
                                          !.closeCode = 1000, !.closeReason = "expired"]
                    ELSE conns[c]]
    /\ rooms' = [r \in RoomIds |-> IF r \in dead THEN NoRoom ELSE rooms[r]]
    /\ sweepDue' = FALSE
    /\ out' = Quiet(conns)
    /\ last' = Ran("sweep", 0)
    /\ UNCHANGED <<objs, now, hist>>

(* keep-alive ping setInterval: wss.clients holds every socket whose close *)
(* event has not been emitted yet (rejected sockets, which have no handler *)
(* and no entry in conns, are left out)                                    *)
KeepAlive ==
    /\ out' = [c \in DOMAIN conns |->
                  IF conns[c].readyState # CLOSED
                  THEN <<[type |-> "ping", t |-> now]>> ELSE <<>>]
    /\ hist' = Record(hist, out')
    /\ last' = Ran("keepalive", 0)
    /\ UNCHANGED <<rooms, objs, conns, now, sweepDue>>

(* Date.now() moves on; the GC timer fires at least once per clock step *)
Tick ==
    /\ ~sweepDue
    /\ now < MaxClock * ClockStepMs
    /\ now' = now + ClockStepMs
    /\ sweepDue' = TRUE
    /\ out' = Quiet(conns)
    /\ last' = Ran("tick", 0)
    /\ UNCHANGED <<rooms, objs, conns, hist>>

Next ==
    \/ \E input \in CreateInputs, gen \in Nanoid6 : CreateRoom(input, gen)
    \/ \E rid \in RoomIdInputs, role \in RoleInputs : Connect(rid, role)
    \/ \E c \in DOMAIN conns : ClientClose(c)
    \/ \E c \in DOMAIN conns : CloseEvent(c)
    \/ \E c \in DOMAIN conns, buf \in RawFrames : Message(c, buf)
    \/ Sweep
    \/ KeepAlive
    \/ Tick

Spec == Init /\ [][Next]_vars

TypeOK ==
    /\ Len(out) \in {Len(conns), Len(conns) + 1}
    /\ Len(conns) = Len(hist)
    /\ \A r \in RoomIds : rooms[r] \in 0..Len(objs)

(* ---- derived views of the state ---- *)
Objs == DOMAIN objs
Conns == DOMAIN conns
Registered(o) == \E r \in RoomIds : rooms[r] = o
Live(c) == conns[c].readyState # CLOSED
Open(c) == conns[c].readyState = OPEN
Members(o) == Range(objs[o].members)
Admitted == last.op = "connect" /\ last.closed = NoClose
Rejected == last.op = "connect" /\ last.closed # NoClose

(* ---- C1 ---- *)
FullAttempt ==
    /\ last'.op = "connect"
    /\ last'.rid \in RoomIds
    /\ rooms[last'.rid] # NoRoom
    /\ Len(objs[rooms[last'.rid]].members) = 2

(* C1: every Session object has 0, 1 or 2 members in every reachable state, *)
(* and a connection attempt on a registered session that has 2 members is   *)
(* rejected and leaves the registry, every member map and every admitted    *)
(* connection unchanged.                                                     *)
C1_Cardinality ==
    /\ [](\A o \in Objs : Len(objs[o].members) \in {0, 1, 2}
                          /\ Cardinality(Members(o)) = Len(objs[o].members))
    /\ [][FullAttempt => /\ last'.closed = [code |-> 1008, reason |-> "room full"]
                         /\ UNCHANGED <<rooms, objs, conns>>]_vars

C1_Witness ==
    /\ Rejected
    /\ last.closed.reason = "room full"
    /\ rooms["A"] # NoRoom
    /\ Len(objs[rooms["A"]].members) = 2

(* ---- C2 ---- *)
OpenUnder(rid) == {c \in Conns : Open(c) /\ conns[c].roomId = rid}

(* C2: for every session identifier at most two open connections were       *)
(* admitted under it.                                                        *)
C2_AtMostTwoLive == \A rid \in RoomIds : Cardinality(OpenUnder(rid)) <= 2

(* ---- C3 ---- *)
Relayed == last.op = "message" /\ last.buf.ok /\ last.buf.type \in {"offer", "answer", "ice"}

(* C3: when A sends offer, answer or ice while A and B are open members of   *)
(* the same session, B is sent exactly the envelope {type, roomId, from: A,  *)
(* payload} and A is sent nothing.                                           *)
C3_RelayToPeerOnly ==
    \A a \in Conns, b \in Conns :
        (/\ Relayed
         /\ last.c = a
         /\ a # b
         /\ Open(a) /\ Open(b)
         /\ conns[a].room = conns[b].room
         /\ {a, b} \subseteq Members(conns[a].room))
        => /\ out[b] = <<[type |-> last.buf.type, roomId |-> conns[a].roomId,
                          from |-> a, payload |-> last.buf.payload]>>
           /\ out[a] = <<>>

(* ---- C4 ---- *)
(* C4: a sweep removes from the registry every registered session whose age  *)
(* exceeds ROOM_TTL_MS, in that same step and with its member map untouched, *)
(* and issues close(1000, "expired") on every member connection, none of     *)
(* which stays open.                                                         *)
C4_Expiry ==
    [][last'.op = "sweep" =>
        \A r \in RoomIds :
            (rooms[r] # NoRoom /\ now - objs[rooms[r]].createdAt > ROOM_TTL_MS)
            => /\ rooms'[r] = NoRoom
               /\ objs' = objs
               /\ \A c \in Members(rooms[r]) :
                     /\ conns'[c].readyState = CLOSING
                     /\ conns'[c].closeCode = 1000
                     /\ conns'[c].closeReason = "expired"]_vars

C4_Witness ==
    /\ last.op = "sweep"
    /\ \E c \in Conns :
          /\ conns[c].readyState = CLOSING
          /\ conns[c].closeReason = "expired"
          /\ ~conns[c].peerGone
          /\ rooms[conns[c].roomId] = NoRoom
          /\ c \in Members(conns[c].room)

(* ---- C5 ---- *)
(* C5 as stated: a registered session never has 0 members. *)
C5_NoEmptyRegistered ==
    \A r \in RoomIds : rooms[r] # NoRoom => Len(objs[rooms[r]].members) > 0

(* C5 amended: when a step brings a session's member count to 0 the registry *)
(* has no entry for its identifier after that step, and a Session object     *)
(* that is not in the registry is never registered again.                    *)
C5_NoRetainedEmptied ==
    [][\A o \in Objs :
          /\ (Len(objs[o].members) > 0 /\ Len(objs'[o].members) = 0)
             => rooms'[objs[o].roomId] = NoRoom
          /\ ~Registered(o) => \A r \in RoomIds : rooms'[r] # o]_vars

C5_Witness ==
    /\ last.op = "close"
    /\ now = 0
    /\ Objs # {}
    /\ \A r \in RoomIds : rooms[r] = NoRoom
    /\ \A o \in Objs : objs[o].members = <<>>

(* ---- C6 ---- *)
(* C6: no two distinct Session objects created under the same identifier     *)
(* both hold members whose connections have not finished closing.            *)
C6_OneLiveSessionPerId ==
    \A o1 \in Objs, o2 \in Objs :
        (o1 # o2 /\ objs[o1].roomId = objs[o2].roomId)
        => ~(/\ \E c \in Members(o1) : Live(c)
             /\ \E c \in Members(o2) : Live(c))

(* ---- C7 ---- *)
(* C7: a connection without a roomId is closed with "roomId required"; one   *)
(* to a registered session with 2 members is closed with "room full"; every  *)
(* rejection leaves the registry, the Session objects, the admitted          *)
(* connections and their histories unchanged and sends no frame to anyone,   *)
(* the rejected socket included.                                             *)
C7_RejectionMutatesNothing ==
    [][last'.op = "connect" =>
        /\ last'.rid = "" => last'.closed = [code |-> 1008, reason |-> "roomId required"]
        /\ FullAttempt => last'.closed = [code |-> 1008, reason |-> "room full"]
        /\ last'.closed # NoClose =>
              /\ last'.rid = "" \/ FullAttempt
              /\ UNCHANGED <<rooms, objs, conns, hist>>
              /\ Len(out') = Len(conns) + 1
              /\ \A c \in DOMAIN out' : out'[c] = <<>>]_vars

C7_Witness ==
    /\ Rejected
    /\ last.closed.reason = "roomId required"
    /\ \E c \in Conns : Open(c)

(* ---- C8 ---- *)
Pinged == last.op = "message" /\ last.buf.ok /\ last.buf.type = "ping"

(* C8: a ping is answered by exactly one pong on the sender's socket and no  *)
(* frame goes to any other connection.                                       *)
C8_PingPong ==
    Pinged => /\ out[last.c] = <<[type |-> "pong", t |-> now]>>
              /\ \A c \in DOMAIN out : c # last.c => out[c] = <<>>

C8_Witness ==
    /\ Pinged
    /\ out[last.c] # <<>>
    /\ \E b \in Conns : /\ b # last.c
                        /\ Open(b)
                        /\ conns[b].room = conns[last.c].room
                        /\ rooms[conns[b].roomId] = conns[b].room

(* ---- C9 ---- *)
Unsupported ==
    /\ last.op = "message"
    /\ last.buf.ok
    /\ last.buf.type \notin {"", "offer", "answer", "ice", "ping"}

(* C9: a message whose type is none of offer, answer, ice, ping is answered  *)
(* by exactly one error frame with code unsupported_type on the sender's     *)
(* socket and no frame goes to any other connection.                         *)
C9_UnsupportedType ==
    Unsupported => /\ out[last.c] = <<[type |-> "error", code |-> "unsupported_type"]>>
                   /\ \A c \in DOMAIN out : c # last.c => out[c] = <<>>

C9_Witness ==
    /\ Unsupported
    /\ out[last.c] # <<>>
    /\ \E b \in Conns : /\ b # last.c
                        /\ Open(b)
                        /\ conns[b].room = conns[last.c].room
                        /\ rooms[conns[b].roomId] = conns[b].room

(* ---- C10 ---- *)
(* C10: the first frame ever sent to an admitted connection is a hello and   *)
(* it is sent exactly one hello; the hello of an admission carries the       *)
(* roomId, the new memberId, the role, the room's createdAt and the room's   *)
(* members at that moment, in join order with the new member last, and the   *)
(* connection's own member.joined follows it.                                *)
C10_Hello ==
    /\ \A c \in Conns : Live(c) => hist[c].first = "hello" /\ hist[c].nHello = 1
    /\ Admitted =>
          LET c == last.c
              room == objs[conns[c].room]
          IN /\ c = Len(conns)
             /\ Len(out[c]) = 2
             /\ out[c][1] = [type |-> "hello", roomId |-> last.rid, memberId |-> c,
                             role |-> last.role, createdAt |-> room.createdAt,
                             members |-> room.members]
             /\ out[c][2].type = "member.joined"
             /\ room.roomId = last.rid
             /\ room.createdAt <= now
             /\ Len(room.members) \in {1, 2}
             /\ room.members[Len(room.members)] = c
             /\ \A i \in DOMAIN room.members, j \in DOMAIN room.members :
                   i < j => room.members[i] < room.members[j]
             /\ \A b \in Conns : b # c => \A i \in DOMAIN out[b] : out[b][i].type # "hello"

C10_Witness ==
    /\ Admitted
    /\ Len(out[last.c][1].members) = 2
    /\ out[last.c][1].createdAt < now

(* ---- C11 ---- *)
(* C11: an admission sends member.joined, naming the new member with its     *)
(* roomId and role, to every member of its room whose socket is open, the    *)
(* new member included (after its hello), and sends nothing to any other     *)
(* connection.                                                               *)
C11_JoinPresence ==
    Admitted =>
        LET c == last.c
            joined == [type |-> "member.joined", roomId |-> last.rid,
                       memberId |-> c, role |-> last.role]
        IN /\ Len(out[c]) = 2 /\ out[c][2] = joined
           /\ \A b \in Conns \ {c} :
                 out[b] = IF b \in Members(conns[c].room) /\ Open(b)
                          THEN <<joined>> ELSE <<>>

C11_Witness ==
    /\ Admitted
    /\ \E b \in Conns : b # last.c /\ out[b] # <<>>
    /\ \E b \in Conns : b # last.c /\ conns[b].readyState = CLOSING /\ out[b] = <<>>

(* ---- C12 ---- *)
(* the member of room o that is not c *)
Other(o, c) == CHOOSE b \in Members(o) : b # c

(* C12: when the close of one of two members is handled while the other      *)
(* member is open, the room keeps exactly the other member, the other        *)
(* member is sent member.left naming the departed one, the departed one is   *)
(* sent nothing and the room stays registered; when the close of the only    *)
(* member is handled the identifier leaves the registry.                     *)
C12_Departure ==
    [][last'.op = "close" =>
        LET c == last'.c
            o == conns[c].room
            rid == conns[c].roomId
        IN /\ (Len(objs[o].members) = 2 /\ Open(Other(o, c))) =>
                 /\ objs'[o].members = <<Other(o, c)>>
                 /\ out'[Other(o, c)] = <<[type |-> "member.left", roomId |-> rid,
                                          memberId |-> c]>>
                 /\ out'[c] = <<>>
                 /\ rooms'[rid] = o
           /\ Len(objs[o].members) = 1 =>
                 /\ objs'[o].members = <<>>
                 /\ rooms'[rid] = NoRoom]_vars

(* ---- C13 ---- *)
BadJson == last.op = "message" /\ ~last.buf.ok
NoType == last.op = "message" /\ last.buf.ok /\ last.buf.type = ""

(* C13: an undecodable frame is answered by exactly one error frame with     *)
(* code bad_json on the sender's socket and nothing else is sent; a decoded  *)
(* message without a type sends nothing at all; and no message, of any type, *)
(* changes the registry, a room object or the state of any connection.       *)
C13_ProtocolErrorsLocal ==
    /\ [](/\ BadJson => /\ out[last.c] = <<[type |-> "error", code |-> "bad_json"]>>
                        /\ \A c \in DOMAIN out : c # last.c => out[c] = <<>>
          /\ NoType => \A c \in DOMAIN out : out[c] = <<>>)
    /\ [][last'.op = "message" => UNCHANGED <<rooms, objs, conns, now>>]_vars

C13_Witness ==
    /\ BadJson
    /\ out[last.c] # <<>>
    /\ \E b \in Conns : /\ b # last.c
                        /\ Open(b)
                        /\ conns[b].room = conns[last.c].room
                        /\ rooms[conns[b].roomId] = conns[b].room

(* ---- C14 ---- *)
(* a create-session request or a connection names an identifier that is in   *)
(* the registry                                                              *)
EnsureExisting ==
    /\ last'.op \in {"create", "connect"}
    /\ last'.rid \in RoomIds
    /\ rooms[last'.rid] # NoRoom

(* C14: no step changes the createdAt of a room object; a create-session     *)
(* request or a connection for a registered identifier creates no object and *)
(* leaves the registry entry as it is, the request changing no room object   *)
(* at all and the connection keeping the members the room had; and a sweep   *)
(* evicts a registered room exactly when now - createdAt > ROOM_TTL_MS,      *)
(* whenever members joined.                                                  *)
C14_CreatedAtOnce ==
    [][/\ \A o \in Objs : o \in DOMAIN objs' /\ objs'[o].createdAt = objs[o].createdAt
       /\ EnsureExisting =>
             LET o == rooms[last'.rid] IN
             /\ rooms' = rooms
             /\ Len(objs') = Len(objs)
             /\ last'.op = "create" => objs' = objs
             /\ last'.op = "connect" =>
                   /\ Len(objs'[o].members) >= Len(objs[o].members)
                   /\ SubSeq(objs'[o].members, 1, Len(objs[o].members)) = objs[o].members
       /\ last'.op = "sweep" =>
             \A r \in RoomIds :
                 rooms[r] # NoRoom =>
                     (rooms'[r] = NoRoom <=> now - objs[rooms[r]].createdAt > ROOM_TTL_MS)]_vars

(* a room pre-created earlier gets its first member now *)
C14_Witness ==
    /\ Admitted
    /\ Len(objs[conns[last.c].room].members) = 1
    /\ objs[conns[last.c].room].createdAt < now
    /\ rooms[last.rid] = conns[last.c].room

(* ---- C15 ---- *)
(* C15: a sweep sends no frame, and the close handler of a connection the    *)
(* sweeper closed sends no frame to any connection.                          *)
C15_SilentExpiry ==
    [][/\ last'.op = "sweep" => \A b \in DOMAIN out' : out'[b] = <<>>
       /\ (/\ last'.op = "close"
           /\ conns[last'.c].closeReason = "expired"
           /\ ~conns[last'.c].peerGone)
          => \A b \in DOMAIN out' : out'[b] = <<>>]_vars

(* ---- C16 ---- *)
(* C16: a room object that is not in the registry is never registered again  *)
(* and never gains a member; a step that creates a room object is a          *)
(* create-session request or a connection for an identifier that is not in   *)
(* the registry, and the new object is registered under that identifier with *)
(* createdAt equal to the time of that step.                                 *)
C16_NoReentry ==
    [][/\ \A o \in Objs :
             ~Registered(o) =>
                 /\ \A r \in RoomIds : rooms'[r] # o
                 /\ Range(objs'[o].members) \subseteq Members(o)
       /\ objs' # objs /\ Len(objs') # Len(objs) =>
             LET new == Len(objs) + 1 IN
             /\ Len(objs') = new
             /\ last'.op \in {"create", "connect"}
             /\ rooms[last'.rid] = NoRoom
             /\ rooms'[last'.rid] = new
             /\ objs'[new].roomId = last'.rid
             /\ objs'[new].createdAt = now']_vars

(* a connection re-creates an identifier whose earlier room object was       *)
(* removed, at a later time                                                  *)
C16_Witness ==
    /\ Admitted
    /\ conns[last.c].room > 1
    /\ objs[1].roomId = last.rid
    /\ objs[1].createdAt < objs[conns[last.c].room].createdAt
    /\ objs[conns[last.c].room].createdAt = now

(* ---- C17 ---- *)
(* the room object the sender was admitted into has no other member whose   *)
(* connection is open                                                        *)
NoOpenPeer(a) == \A b \in Members(conns[a].room) \ {a} : ~Open(b)

(* C17: when a participant sends offer, answer or ice and its session has no *)
(* other member whose connection is open, nothing is sent to any connection, *)
(* the sender included.                                                      *)
C17_DroppedRelay ==
    \A a \in Conns :
        (Relayed /\ last.c = a /\ NoOpenPeer(a)) =>
            \A c \in DOMAIN out : out[c] = <<>>

(* ---- C18 ---- *)
(* the connections the last handler sent a frame of one of the types to      *)
SentTo(types) ==
    {c \in DOMAIN out : \E i \in DOMAIN out[c] : out[c][i].type \in types}

(* C18: a relayed offer/answer/ice envelope is sent to at most one           *)
(* connection, and that connection is a member of the room object the sender *)
(* was admitted into; member.joined is sent only to members of the room      *)
(* object the joiner was admitted into; member.left is sent only to members  *)
(* of the room object the closing connection was admitted into.              *)
C18_SessionIsolation ==
    /\ [](/\ Relayed =>
               /\ Cardinality(SentTo(RelayTypes)) <= 1
               /\ SentTo(RelayTypes) \subseteq Members(conns[last.c].room)
          /\ Admitted =>
               SentTo({"member.joined"}) \subseteq Members(conns[last.c].room))
    /\ [][last'.op = "close" =>
              \A c \in DOMAIN out' :
                  \A i \in DOMAIN out'[c] :
                      out'[c][i].type = "member.left" =>
                          c \in Members(conns[last'.c].room)]_vars

(* ---- C19 ---- *)
(* C19: every admitted connection that is still open is a member of the room *)
(* object registered under its session identifier, and a close handler       *)
(* removes from the registry only the room object its connection was         *)
(* admitted into.                                                            *)
C19_RegistryConsistency ==
    /\ [](\A c \in Conns :
              Open(c) => /\ rooms[conns[c].roomId] = conns[c].room
                         /\ c \in Members(conns[c].room))
    /\ [][last'.op = "close" =>
              \A r \in RoomIds :
                  rooms'[r] # rooms[r] => rooms[r] = conns[last'.c].room]_vars

(* ---- C20 ---- *)
(* the clock of the fair specification runs two time-to-live periods longer, *)
(* so that a room created when the first generation is evicted can itself    *)
(* outlive the time-to-live                                                  *)
LiveClock == MaxClock + 2

(* Date.now() moves on; the GC timer fires at least once per clock step *)
TickLive ==
    /\ ~sweepDue
    /\ now < LiveClock * ClockStepMs
    /\ now' = now + ClockStepMs
    /\ sweepDue' = TRUE
    /\ out' = Quiet(conns)
    /\ last' = Ran("tick", 0)
    /\ UNCHANGED <<rooms, objs, conns, hist>>

LiveNext ==
    \/ \E input \in CreateInputs, gen \in Nanoid6 : CreateRoom(input, gen)
    \/ \E rid \in RoomIdInputs, role \in RoleInputs : Connect(rid, role)
    \/ \E c \in DOMAIN conns : ClientClose(c)
    \/ \E c \in DOMAIN conns : CloseEvent(c)
    \/ Sweep
    \/ TickLive

(* time advances, the GC timer keeps firing, and a socket that has left OPEN *)
(* gets its close event; a client is never obliged to disconnect             *)
LiveSpec ==
    /\ Init
    /\ [][LiveNext]_vars
    /\ WF_vars(TickLive)
    /\ WF_vars(Sweep)
    /\ \A c \in 1..MaxConns : WF_vars(c \in DOMAIN conns /\ CloseEvent(c))

(* the clock of the model can still pass the time-to-live of the room object *)
WithinHorizon(o) == objs[o].createdAt + ROOM_TTL_MS < LiveClock * ClockStepMs

(* C20: every admitted connection that is open is eventually no longer open, *)
(* and every registered room object is eventually no longer registered       *)
(* (for every room object whose time-to-live ends before the clock of the    *)
(* model stops).                                                             *)
C20_TimeLimit ==
    /\ \A c \in 1..MaxConns :
          [](/\ c \in DOMAIN conns
             /\ Open(c)
             /\ WithinHorizon(conns[c].room)
             => <>(~(c \in DOMAIN conns /\ Open(c))))
    /\ \A o \in 1..MaxRooms :
          [](/\ o \in Objs
             /\ Registered(o)
             /\ WithinHorizon(o)
             => <>(~Registered(o)))
====
